---------------------------- MODULE Spec2Model ----------------------------
(***************************************************************************)
(* Model of the Gemma question-answering service of src/app.py: the model  *)
(* load at startup (load_model), the handlers GET /, GET /health and       *)
(* POST /predict on the single-threaded event loop, and the answer         *)
(* extraction that /predict applies to the decoded text.                   *)
(*                                                                         *)
(* Text is a sequence of one-character strings.  The Hangul markers of the *)
(* source are written with ASCII stand-ins, one letter per syllable:       *)
(*   "D","B",":"  is the answer marker   (dap-byeon ':', app.py line 198)  *)
(*   "J","M",":"  is the question marker (jil-mun   ':', app.py line 202)  *)
(***************************************************************************)
EXTENDS Integers, Sequences, FiniteSets, TLC

VARIABLES
    model,        \* global `model`     (app.py:22): "None" or "PeftModel"
    tokenizer,    \* global `tokenizer` (app.py:21): "None" or "Tokenizer"
    loadPc,       \* position of the load_model coroutine (app.py:61-117)
    host,         \* who drives the app: "uvicorn" (app.py:232) or "caller"
    server,       \* uvicorn's lifecycle: "starting", "serving", "exited"
    startupError, \* TRUE once load_model's exception reached its caller
    queue,        \* the event loop's ready tasks, one per accepted request
    cur,          \* the task the event loop is executing, NoTask when idle
    full_output,  \* extractor run: the decoded text (app.py:194)
    answer_only,  \* extractor run: the answer being cut (app.py:197)
    epc           \* extractor run: position in lines 197-207

vars == <<model, tokenizer, loadPc, host, server, startupError, queue, cur,
          full_output, answer_only, epc>>

serverVars == <<model, tokenizer, loadPc, host, server, startupError, queue, cur>>

extractVars == <<full_output, answer_only, epc>>

-----------------------------------------------------------------------------
(* Bounds *)

\* Longest decoded text explored by the extractor runs, in tokens.
MaxLen == 6

\* Number of requests the service holds at once (queued or being handled).
MaxReq == 3

-----------------------------------------------------------------------------
(* Text *)

AnswerMarker == <<"D", "B", ":">>

QuestionMarker == <<"J", "M", ":">>

LtMarker == <<"<">>

\* str.strip() with no argument removes whitespace.
Whitespace == {" ", "\n"}

\* The pieces decoded texts are built from: the markers, '<', whitespace
\* and a plain letter.
Tokens == {AnswerMarker, QuestionMarker, LtMarker, <<" ">>, <<"\n">>, <<"a">>}

RECURSIVE Flatten(_)
Flatten(ts) == IF ts = <<>> THEN <<>> ELSE Head(ts) \o Flatten(Tail(ts))

Texts == {Flatten(ts) : ts \in UNION {[1..n -> Tokens] : n \in 0..MaxLen}}

\* s.find(pat) + 1: the least position where pat occurs in s, 0 when absent.
RECURSIVE FindFrom(_, _, _)
FindFrom(s, pat, i) ==
    IF i + Len(pat) - 1 > Len(s) THEN 0
    ELSE IF SubSeq(s, i, i + Len(pat) - 1) = pat THEN i
    ELSE FindFrom(s, pat, i + 1)

Find(s, pat) == FindFrom(s, pat, 1)

\* pat in s
In(pat, s) == Find(s, pat) # 0

\* s.split(pat, 1)[0] for s containing pat
SplitHead(s, pat) == SubSeq(s, 1, Find(s, pat) - 1)

\* s.split(pat, 1)[1] for s containing pat
SplitTail(s, pat) == SubSeq(s, Find(s, pat) + Len(pat), Len(s))

RECURSIVE LStrip(_)
LStrip(s) ==
    IF s # <<>> /\ Head(s) \in Whitespace THEN LStrip(Tail(s)) ELSE s

RECURSIVE RStrip(_)
RStrip(s) ==
    IF s # <<>> /\ s[Len(s)] \in Whitespace
    THEN RStrip(SubSeq(s, 1, Len(s) - 1)) ELSE s

\* s.strip()
Strip(s) == RStrip(LStrip(s))

\* Lines 197-199: the text after the first answer marker, stripped; the
\* whole text, untouched, when there is no answer marker.
AfterAnswerMarkerNoStrip(full) ==
    IF In(AnswerMarker, full) THEN SplitTail(full, AnswerMarker) ELSE full

AfterAnswerMarkerStripAlways(full) ==
    IF In(AnswerMarker, full) THEN Strip(SplitTail(full, AnswerMarker))
    ELSE Strip(full)

AfterAnswerMarker(full) ==
    IF In(AnswerMarker, full) THEN Strip(SplitTail(full, AnswerMarker))
    ELSE full

\* Lines 202-203: cut at the first question marker.
BeforeQuestionMarkerNoStrip(ans) ==
    IF In(QuestionMarker, ans) THEN SplitHead(ans, QuestionMarker) ELSE ans

BeforeQuestionMarker(ans) ==
    IF In(QuestionMarker, ans) THEN Strip(SplitHead(ans, QuestionMarker)) ELSE ans

\* Lines 206-207: cut at the first '<'.
BeforeLtNoStrip(ans) ==
    IF In(LtMarker, ans) THEN SplitHead(ans, LtMarker) ELSE ans

BeforeLt(ans) ==
    IF In(LtMarker, ans) THEN Strip(SplitHead(ans, LtMarker)) ELSE ans

\* Lines 197-207 as one function: the two cuts are nested under the answer
\* marker test.
ExtractAnswer(full) ==
    IF In(AnswerMarker, full)
    THEN BeforeLt(BeforeQuestionMarker(AfterAnswerMarker(full)))
    ELSE AfterAnswerMarker(full)

-----------------------------------------------------------------------------
(* The extractor, step by step, over every text of Texts *)

ExtractAnswerMarker ==
    /\ epc = "answer"
    /\ answer_only' = AfterAnswerMarker(full_output)
    /\ epc' = IF In(AnswerMarker, full_output) THEN "question" ELSE "done"
    /\ UNCHANGED <<full_output, serverVars>>

ExtractQuestionMarker ==
    /\ epc = "question"
    /\ answer_only' = BeforeQuestionMarker(answer_only)
    /\ epc' = "lt"
    /\ UNCHANGED <<full_output, serverVars>>

ExtractLt ==
    /\ epc = "lt"
    /\ answer_only' = BeforeLt(answer_only)
    /\ epc' = "done"
    /\ UNCHANGED <<full_output, serverVars>>

NoTask == [kind |-> "none"]

InitServerIdle ==
    /\ model = "None"
    /\ tokenizer = "None"
    /\ loadPc = "init"
    /\ server = "starting"
    /\ startupError = FALSE
    /\ queue = <<>>
    /\ cur = NoTask

InitExtract ==
    /\ InitServerIdle
    /\ host = "caller"
    /\ full_output \in Texts
    /\ answer_only = full_output
    /\ epc = "answer"

NextExtract == ExtractAnswerMarker \/ ExtractQuestionMarker \/ ExtractLt

SpecExtract == InitExtract /\ [][NextExtract]_vars

-----------------------------------------------------------------------------
(* Properties of the extractor.  They are stated with the definitions      *)
(* below, which describe substrings and trimming by position and do not    *)
(* use the operators that model the code.                                  *)

OccursAt(s, pat, i) ==
    /\ i >= 1
    /\ i + Len(pat) - 1 <= Len(s)
    /\ \A k \in 1..Len(pat) : s[i + k - 1] = pat[k]

Occurs(s, pat) == \E i \in 1..Len(s) : OccursAt(s, pat, i)

FirstAt(s, pat) ==
    CHOOSE i \in 1..Len(s) :
        OccursAt(s, pat, i) /\ \A j \in 1..(i - 1) : ~OccursAt(s, pat, j)

\* s without its leading and trailing whitespace.
Trimmed(s) ==
    LET solid == {i \in 1..Len(s) : s[i] \notin Whitespace}
    IN  IF solid = {} THEN <<>>
        ELSE LET lo == CHOOSE i \in solid : \A j \in solid : i <= j
                 hi == CHOOSE i \in solid : \A j \in solid : j <= i
             IN  [k \in 1..(hi - lo + 1) |-> s[lo + k - 1]]

\* The content after the first answer marker.
Content(s) ==
    LET i == FirstAt(s, AnswerMarker)
    IN  [k \in 1..(Len(s) - i - Len(AnswerMarker) + 1) |->
            s[i + Len(AnswerMarker) + k - 1]]

\* The part of s before its first occurrence of pat.
Before(s, pat) == [k \in 1..(FirstAt(s, pat) - 1) |-> s[k]]

\* s reads X, a space, the question marker, a space, Y, as in "X 질문: Y",
\* with X the text before the first question marker of s.
IsXQuestionY(s) ==
    /\ Occurs(s, QuestionMarker)
    /\ LET q == FirstAt(s, QuestionMarker)
       IN  /\ q >= 3
           /\ s[q - 1] = " "
           /\ q + Len(QuestionMarker) + 1 <= Len(s)
           /\ s[q + Len(QuestionMarker)] = " "

\* s reads X, a space, '<', a tag, Y, as in "X <tag>Y", with X the text
\* before the first '<' of s.
IsXTagY(s) ==
    /\ Occurs(s, LtMarker)
    /\ LET t == FirstAt(s, LtMarker)
       IN  /\ t >= 3
           /\ s[t - 1] = " "
           /\ t + 1 <= Len(s)

\* C6 as stated: a text with no answer marker yields the trimmed text.
C6_TrimmedIdentity ==
    (epc = "done" /\ ~Occurs(full_output, AnswerMarker))
        => answer_only = Trimmed(full_output)

\* C6 amended: a text with no answer marker yields the text itself, not
\* trimmed, also when it contains the question marker or '<'.
C6_Identity ==
    (epc = "done" /\ ~Occurs(full_output, AnswerMarker))
        => answer_only = full_output

C6_Witness ==
    /\ epc = "done"
    /\ ~Occurs(full_output, AnswerMarker)
    /\ Occurs(full_output, QuestionMarker)
    /\ Occurs(full_output, LtMarker)
    /\ Trimmed(full_output) # full_output
    /\ answer_only = full_output

\* C7 as stated: answer marker followed by "X 질문: Y" yields trimmed X, for
\* every X.
C7_AnyX ==
    (/\ epc = "done"
     /\ Occurs(full_output, AnswerMarker)
     /\ IsXQuestionY(Content(full_output)))
        => answer_only = Trimmed(Before(Content(full_output), QuestionMarker))

\* C7 amended: answer marker followed by X, the question marker and Y, where
\* X contains no '<', yields trimmed X.
C7_XWithoutLt ==
    (/\ epc = "done"
     /\ Occurs(full_output, AnswerMarker)
     /\ Occurs(Content(full_output), QuestionMarker)
     /\ ~Occurs(Before(Content(full_output), QuestionMarker), LtMarker))
        => answer_only = Trimmed(Before(Content(full_output), QuestionMarker))

C7_Witness ==
    /\ epc = "done"
    /\ Occurs(full_output, AnswerMarker)
    /\ IsXQuestionY(Content(full_output))
    /\ ~Occurs(Before(Content(full_output), QuestionMarker), LtMarker)
    /\ answer_only = <<"a">>
    /\ Before(Content(full_output), QuestionMarker) # answer_only

\* C8 as stated: answer marker followed by "X <tag>Y" yields trimmed X, for
\* every X.
C8_AnyX ==
    (/\ epc = "done"
     /\ Occurs(full_output, AnswerMarker)
     /\ IsXTagY(Content(full_output)))
        => answer_only = Trimmed(Before(Content(full_output), LtMarker))

\* C8 amended: answer marker followed by X, '<' and the rest, where X
\* contains no question marker, yields trimmed X.
C8_XWithoutQuestion ==
    (/\ epc = "done"
     /\ Occurs(full_output, AnswerMarker)
     /\ Occurs(Content(full_output), LtMarker)
     /\ ~Occurs(Before(Content(full_output), LtMarker), QuestionMarker))
        => answer_only = Trimmed(Before(Content(full_output), LtMarker))

C8_Witness ==
    /\ epc = "done"
    /\ Occurs(full_output, AnswerMarker)
    /\ IsXTagY(Content(full_output))
    /\ ~Occurs(Before(Content(full_output), LtMarker), QuestionMarker)
    /\ answer_only = <<"a">>
    /\ Before(Content(full_output), LtMarker) # answer_only

\* C9: answer marker followed by content with neither the question marker nor
\* '<' yields the trimmed content after the first answer marker.
C9_PlainContent ==
    (/\ epc = "done"
     /\ Occurs(full_output, AnswerMarker)
     /\ ~Occurs(Content(full_output), QuestionMarker)
     /\ ~Occurs(Content(full_output), LtMarker))
        => answer_only = Trimmed(Content(full_output))

C9_Witness ==
    /\ epc = "done"
    /\ Occurs(full_output, AnswerMarker)
    /\ ~Occurs(Content(full_output), QuestionMarker)
    /\ ~Occurs(Content(full_output), LtMarker)
    /\ Occurs(Content(full_output), AnswerMarker)
    /\ Trimmed(Content(full_output)) # Content(full_output)
    /\ answer_only = Trimmed(Content(full_output))
    /\ answer_only # <<>>

-----------------------------------------------------------------------------
(* Requests *)

\* Defaults of QuestionRequest.  The float fields are counted in tenths.
DefaultMaxTokens == 120

DefaultTemperature == 3

DefaultTopK == 40

DefaultTopP == 8

DefaultRepetitionPenalty == 18

\* JSON values of a request body.
Absent == [ty |-> "absent"]

Num(n) == [ty |-> "num", v |-> n]

Str(t) == [ty |-> "str", v |-> t]

Body(q, mt, te, tk, tp, rp) ==
    [question |-> q, max_tokens |-> mt, temperature |-> te, top_k |-> tk,
     top_p |-> tp, repetition_penalty |-> rp]

\* The bodies sent to POST /predict: the documented example, the payload of
\* the remote test, two bodies of the wrong shape, and one body per field
\* with a value outside the range the data model gives it.
Bodies ==
    { Body(Str(<<"a">>), Absent, Absent, Absent, Absent, Absent),
      Body(Str(<<"a">>), Num(80), Num(3), Absent, Absent, Absent),
      Body(Absent, Absent, Absent, Absent, Absent, Absent),
      Body(Str(<<"a">>), Str(<<"a">>), Absent, Absent, Absent, Absent),
      Body(Str(<<>>), Absent, Absent, Absent, Absent, Absent),
      Body(Str(<<"a">>), Num(0), Absent, Absent, Absent, Absent),
      Body(Str(<<"a">>), Absent, Num(0), Absent, Absent, Absent),
      Body(Str(<<"a">>), Absent, Absent, Num(-1), Absent, Absent),
      Body(Str(<<"a">>), Absent, Absent, Absent, Num(15), Absent),
      Body(Str(<<"a">>), Absent, Absent, Absent, Absent, Num(5)) }

NumberFields == {"max_tokens", "temperature", "top_k", "top_p", "repetition_penalty"}

\* What the declared type of each field accepts: question is a required
\* str, the others are optional numbers.
WellTyped(body) ==
    /\ body.question.ty = "str"
    /\ \A f \in NumberFields : body[f].ty \in {"absent", "num"}

OrDefault(value, default) == IF value.ty = "absent" THEN default ELSE value.v

\* The QuestionRequest built from a well-typed body.  Nothing but the types
\* is checked.
QuestionRequest(body) ==
    [question           |-> body.question.v,
     max_tokens         |-> OrDefault(body.max_tokens, DefaultMaxTokens),
     temperature        |-> OrDefault(body.temperature, DefaultTemperature),
     top_k              |-> OrDefault(body.top_k, DefaultTopK),
     top_p              |-> OrDefault(body.top_p, DefaultTopP),
     repetition_penalty |-> OrDefault(body.repetition_penalty, DefaultRepetitionPenalty)]

NoRequest == [question |-> <<>>]

\* Line 172: the prompt is the question marker, the question, a newline and
\* the answer marker.
Prompt(question) ==
    QuestionMarker \o <<" ">> \o question \o <<"\n">> \o AnswerMarker

MODEL_PATH == "./gemma2-finetuned"

device == "cpu"

\* What tokenizer.decode may return: an echo of the prompt with an answer and
\* a follow-up question, a text with no answer marker, an answer with markup.
DecodedTexts ==
    { Prompt(<<"a">>) \o <<" ", "a", " ">> \o QuestionMarker \o <<" ", "a">>,
      <<" ", "a", "<">>,
      AnswerMarker \o <<"a", " ", "<", "a">> }

\* Messages of the exceptions the model runtime may raise.
Exceptions == {"out of memory", "invalid argument"}

-----------------------------------------------------------------------------
(* load_model *)

LoadSteps == <<"import", "base", "adapter", "tokenizer", "to_device", "eval">>

LoadPcs == {LoadSteps[i] : i \in 1..Len(LoadSteps)}

\* The service-level state of the model.
ModelState ==
    CASE loadPc = "init"   -> "Unloaded"
      [] loadPc \in LoadPcs -> "Loading"
      [] loadPc = "done"   -> "Ready"
      [] loadPc = "raised" -> "Failed"

\* The event loop runs one coroutine at a time; load_model holds it from its
\* first line to its return or raise, for it awaits nothing.
LoopIdle == cur = NoTask /\ loadPc \notin LoadPcs

\* Line 117: the except clause raises the exception again.
ReRaisesSwallowed == FALSE

ReRaises == TRUE

\* What the host does when the startup handler returns or raises: uvicorn
\* serves once startup is complete and exits when startup failed.
AfterStartup(failed) ==
    IF host = "uvicorn" THEN (IF failed THEN "exited" ELSE "serving") ELSE server

\* Lines 60-66: the host (or a caller) starts load_model, once.
LoadStart ==
    /\ loadPc = "init"
    /\ cur = NoTask
    /\ server = "starting"
    /\ loadPc' = "import"
    /\ UNCHANGED <<model, tokenizer, host, server, startupError, queue, cur, extractVars>>

\* Lines 68-83: imports, token and cache directory.
LoadImport ==
    /\ loadPc = "import"
    /\ loadPc' = "base"
    /\ UNCHANGED <<model, tokenizer, host, server, startupError, queue, cur, extractVars>>

\* Lines 87-95: the base model, kept in a local.
LoadBase ==
    /\ loadPc = "base"
    /\ loadPc' = "adapter"
    /\ UNCHANGED <<model, tokenizer, host, server, startupError, queue, cur, extractVars>>

\* Lines 99-103: the adapter; the global model is assigned here.
LoadAdapter ==
    /\ loadPc = "adapter"
    /\ model' = "PeftModel"
    /\ loadPc' = "tokenizer"
    /\ UNCHANGED <<tokenizer, host, server, startupError, queue, cur, extractVars>>

\* Lines 106-111: the tokenizer.
LoadTokenizer ==
    /\ loadPc = "tokenizer"
    /\ tokenizer' = "Tokenizer"
    /\ loadPc' = "to_device"
    /\ UNCHANGED <<model, host, server, startupError, queue, cur, extractVars>>

\* Line 112: model = model.to(device).
LoadToDevice ==
    /\ loadPc = "to_device"
    /\ model' = "PeftModel"
    /\ loadPc' = "eval"
    /\ UNCHANGED <<tokenizer, host, server, startupError, queue, cur, extractVars>>

\* Lines 113-114: model.eval(), and load_model returns.
LoadEval ==
    /\ loadPc = "eval"
    /\ loadPc' = "done"
    /\ server' = AfterStartup(FALSE)
    /\ UNCHANGED <<model, tokenizer, host, startupError, queue, cur, extractVars>>

\* Lines 115-117: any step of the try block raises; the globals assigned so
\* far keep their values and the exception goes to the caller.
LoadRaise ==
    /\ loadPc \in LoadPcs
    /\ loadPc' = "raised"
    /\ startupError' = ReRaises
    /\ server' = AfterStartup(ReRaises)
    /\ UNCHANGED <<model, tokenizer, host, queue, cur, extractVars>>

-----------------------------------------------------------------------------
(* The handlers *)

EmptyBody == Body(Absent, Absent, Absent, Absent, Absent, Absent)

NoResponse == [type |-> "none"]

\* A request accepted by the server: the handler coroutine at its start.
\* tok and gen count the calls of the tokenizer and of model.generate; exc is
\* the message of the exception the runtime raised in this request.
NewTask(kind, body) ==
    [kind |-> kind, body |-> body, request |-> NoRequest, pc |-> "start",
     prompt |-> <<>>, full |-> <<>>, answer |-> <<>>, tok |-> 0, gen |-> 0,
     exc |-> "none", status |-> 0, resp |-> NoResponse]

Kinds == {"root", "health", "predict"}

\* The positions of predict at which the coroutine awaits, giving the loop
\* to another task: lines 156-218 hold no await.
AwaitPointsGenerate == {"generate"}

AwaitPoints == {}

\* The coroutine goes on as t: it keeps the loop, or is suspended at an await.
Continue(t) ==
    IF t.pc \in AwaitPoints
    THEN cur' = NoTask /\ queue' = Append(queue, t)
    ELSE cur' = t /\ UNCHANGED queue

Respond(t, status, resp) ==
    [t EXCEPT !.pc = "done", !.status = status, !.resp = resp]

ErrorPrefix == "generation error: "

\* Line 217-218: an exception of the try block becomes a 500 whose detail is
\* the fixed prefix and str(e).
HandleExceptionRetry(t, e) ==
    IF t.pc = "generate" /\ t.gen < 2
    THEN [t EXCEPT !.exc = e]
    ELSE Respond([t EXCEPT !.exc = e], 500,
                 [type |-> "HTTPException", detail |-> <<ErrorPrefix, e>>])

HandleException(t, e) ==
    Respond([t EXCEPT !.exc = e], 500,
            [type |-> "HTTPException", detail |-> <<ErrorPrefix, e>>])

\* A client sends a request.  uvicorn accepts it only while serving; a
\* caller that drives the app itself may send it at any time.
Accept ==
    /\ server # "exited"
    /\ host = "uvicorn" => server = "serving"
    /\ Len(queue) + (IF cur = NoTask THEN 0 ELSE 1) < MaxReq
    /\ \E kind \in Kinds :
        \E body \in (IF kind = "predict" THEN Bodies ELSE {EmptyBody}) :
            queue' = Append(queue, NewTask(kind, body))
    /\ UNCHANGED <<model, tokenizer, loadPc, host, server, startupError, cur, extractVars>>

\* The idle loop resumes the first ready task.
Schedule ==
    /\ LoopIdle
    /\ queue # <<>>
    /\ cur' = Head(queue)
    /\ queue' = Tail(queue)
    /\ UNCHANGED <<model, tokenizer, loadPc, host, server, startupError, extractVars>>

\* The response is sent and the task ends.
Deliver ==
    /\ cur # NoTask
    /\ cur.pc = "done"
    /\ cur' = NoTask
    /\ UNCHANGED <<model, tokenizer, loadPc, host, server, startupError, queue, extractVars>>

\* Lines 123-144: GET /
Root ==
    /\ cur.kind = "root"
    /\ cur.pc = "start"
    /\ cur' = Respond(cur, 200, [type |-> "dict", version |-> "1.0.0"])
    /\ UNCHANGED <<model, tokenizer, loadPc, host, server, startupError, queue, extractVars>>

\* Lines 146-153: GET /health
HealthResponse ==
    [type         |-> "HealthResponse",
     status       |-> IF model # "None" THEN "healthy" ELSE "model_not_loaded",
     model_loaded |-> model # "None",
     device       |-> device]

health_check ==
    /\ cur.kind = "health"
    /\ cur.pc = "start"
    /\ cur' = Respond(cur, 200, HealthResponse)
    /\ UNCHANGED <<model, tokenizer, loadPc, host, server, startupError, queue, extractVars>>

\* Line 156: the body is parsed into a QuestionRequest before predict runs;
\* a body of the wrong shape is answered 422.
PredictParse ==
    /\ cur.kind = "predict"
    /\ cur.pc = "start"
    /\ cur' = IF WellTyped(cur.body)
              THEN [cur EXCEPT !.pc = "guard", !.request = QuestionRequest(cur.body)]
              ELSE Respond(cur, 422, [type |-> "HTTPException", detail |-> <<"validation">>])
    /\ UNCHANGED <<model, tokenizer, loadPc, host, server, startupError, queue, extractVars>>

\* Lines 167-172: 503 unless both globals are set; then the prompt.
PredictGuard ==
    /\ cur.kind = "predict"
    /\ cur.pc = "guard"
    /\ IF model = "None" \/ tokenizer = "None"
       THEN /\ cur' = Respond(cur, 503, [type |-> "HTTPException", detail |-> <<"model not loaded">>])
            /\ UNCHANGED queue
       ELSE Continue([cur EXCEPT !.pc = "tokenize", !.prompt = Prompt(cur.request.question)])
    /\ UNCHANGED <<model, tokenizer, loadPc, host, server, startupError, extractVars>>

\* Lines 175-176: the tokenizer is called; it returns or raises.
PredictTokenize ==
    /\ cur.kind = "predict"
    /\ cur.pc = "tokenize"
    /\ LET t == [cur EXCEPT !.tok = @ + 1]
       IN  \/ Continue([t EXCEPT !.pc = "generate"])
           \/ \E e \in Exceptions : Continue(HandleException(t, e))
    /\ UNCHANGED <<model, tokenizer, loadPc, host, server, startupError, extractVars>>

\* Lines 179-191: model.generate is called with the request's parameters as
\* they are; it returns or raises.
PredictGenerate ==
    /\ cur.kind = "predict"
    /\ cur.pc = "generate"
    /\ LET t == [cur EXCEPT !.gen = @ + 1]
       IN  \/ Continue([t EXCEPT !.pc = "decode"])
           \/ \E e \in Exceptions : Continue(HandleException(t, e))
    /\ UNCHANGED <<model, tokenizer, loadPc, host, server, startupError, extractVars>>

\* Line 194: tokenizer.decode returns the full text, or raises.
PredictDecode ==
    /\ cur.kind = "predict"
    /\ cur.pc = "decode"
    /\ \/ \E text \in DecodedTexts :
            Continue([cur EXCEPT !.pc = "extract", !.full = text])
       \/ \E e \in Exceptions : Continue(HandleException(cur, e))
    /\ UNCHANGED <<model, tokenizer, loadPc, host, server, startupError, extractVars>>

\* Lines 197-207: the answer is cut out of the full text.
PredictExtract ==
    /\ cur.kind = "predict"
    /\ cur.pc = "extract"
    /\ Continue([cur EXCEPT !.pc = "respond", !.answer = ExtractAnswer(cur.full)])
    /\ UNCHANGED <<model, tokenizer, loadPc, host, server, startupError, extractVars>>

\* Lines 209-215: the AnswerResponse.
AnswerResponse(t) ==
    [type        |-> "AnswerResponse",
     question    |-> t.request.question,
     answer      |-> t.answer,
     full_output |-> t.full,
     model_path  |-> MODEL_PATH,
     device      |-> device]

PredictRespond ==
    /\ cur.kind = "predict"
    /\ cur.pc = "respond"
    /\ cur' = Respond(cur, 200, AnswerResponse(cur))
    /\ UNCHANGED <<model, tokenizer, loadPc, host, server, startupError, queue, extractVars>>

-----------------------------------------------------------------------------
(* The service *)

InitService ==
    /\ InitServerIdle
    /\ full_output = <<>>
    /\ answer_only = <<>>
    /\ epc = "off"

\* The service as app.py runs it: uvicorn.run(app), lines 232-237.
Init == InitService /\ host = "uvicorn"

\* The app driven by a caller that does not stop at a failed startup.
InitApp == InitService /\ host = "caller"

Next ==
    \/ LoadStart
    \/ LoadImport
    \/ LoadBase
    \/ LoadAdapter
    \/ LoadTokenizer
    \/ LoadToDevice
    \/ LoadEval
    \/ LoadRaise
    \/ Accept
    \/ Schedule
    \/ Deliver
    \/ Root
    \/ health_check
    \/ PredictParse
    \/ PredictGuard
    \/ PredictTokenize
    \/ PredictGenerate
    \/ PredictDecode
    \/ PredictExtract
    \/ PredictRespond

Spec == Init /\ [][Next]_vars

SpecApp == InitApp /\ [][Next]_vars

-----------------------------------------------------------------------------
(* Properties of the service *)

\* The predict handler has passed its readiness test (line 167), or has
\* answered at it.
PastGuard(t) ==
    /\ t.kind = "predict"
    /\ t.pc \notin {"start", "guard"}
    /\ t.status # 422

\* C1: whenever the model state is not Ready, POST /predict answers 503 and
\* calls neither the tokenizer nor model.generate.
C1_NotReadyFailsFast ==
    (PastGuard(cur) /\ ModelState # "Ready")
        => /\ cur.pc = "done"
           /\ cur.status = 503
           /\ cur.tok = 0
           /\ cur.gen = 0

\* C2: GET /health answers 200 with model_loaded true exactly when the load
\* has completed successfully, and the matching status word.
C2_HealthProjectsModelState ==
    (cur.kind = "health" /\ cur.pc = "done")
        => /\ cur.status = 200
           /\ cur.resp.model_loaded = (ModelState = "Ready")
           /\ cur.resp.status =
                IF ModelState = "Ready" THEN "healthy" ELSE "model_not_loaded"

\* C3: a request is accepted or handled only once the load has completed
\* successfully; a load that raised has passed its exception to uvicorn,
\* which has exited, and the state stays Failed.
C3_ServedOnlyAfterLoad ==
    /\ [](/\ (cur # NoTask \/ queue # <<>>) => ModelState = "Ready"
          /\ ModelState = "Failed" => (startupError /\ server = "exited"))
    /\ [][ModelState = "Failed" => ModelState' = "Failed"]_vars

C3_Witness ==
    /\ ModelState = "Failed"
    /\ model = "PeftModel"
    /\ tokenizer = "Tokenizer"
    /\ startupError
    /\ server = "exited"
    /\ cur = NoTask
    /\ queue = <<>>

AnswerFields == {"type", "question", "answer", "full_output", "model_path", "device"}

\* C4: a predict handled in state Ready calls the tokenizer and
\* model.generate at most once, answers nothing before it is done, and ends
\* either 200 with every field of the AnswerResponse set or 500 with the
\* message of the exception that was raised.
C4_CompleteAnswerOrError ==
    (PastGuard(cur) /\ ModelState = "Ready")
        => /\ cur.gen <= 1
           /\ cur.tok <= 1
           /\ cur.pc # "done" => (cur.status = 0 /\ cur.resp = NoResponse)
           /\ cur.pc = "done" =>
                \/ /\ cur.status = 200
                   /\ cur.exc = "none"
                   /\ cur.gen = 1
                   /\ DOMAIN cur.resp = AnswerFields
                   /\ cur.resp.type = "AnswerResponse"
                   /\ cur.resp.question = cur.body.question.v
                   /\ cur.resp.full_output \in DecodedTexts
                   /\ cur.resp.answer \in Seq({"a", " ", "\n", "<", "D", "B", "J", "M", ":"})
                   /\ cur.resp.model_path = MODEL_PATH
                   /\ cur.resp.device = device
                \/ /\ cur.status = 500
                   /\ cur.exc \in Exceptions
                   /\ cur.resp = [type |-> "HTTPException",
                                  detail |-> <<ErrorPrefix, cur.exc>>]

C4_Witness ==
    /\ PastGuard(cur)
    /\ ModelState = "Ready"
    /\ cur.pc = "done"
    /\ cur.status = 500
    /\ cur.gen = 1
    /\ cur.exc = "out of memory"

\* The ranges the data model gives the fields of a request.
OutOfRange(body) ==
    \/ body.question.ty = "str" /\ body.question.v = <<>>
    \/ body.max_tokens.ty = "num" /\ body.max_tokens.v <= 0
    \/ body.top_k.ty = "num" /\ body.top_k.v <= 0
    \/ body.temperature.ty = "num" /\ body.temperature.v <= 0
    \/ body.top_p.ty = "num" /\ (body.top_p.v <= 0 \/ body.top_p.v > 10)
    \/ body.repetition_penalty.ty = "num" /\ body.repetition_penalty.v < 10

\* C5: a request whose body is malformed or out of range is answered with a
\* client error and reaches neither the tokenizer nor model.generate.
C5_InvalidRequestRejected ==
    (/\ cur.kind = "predict"
     /\ cur.pc = "done"
     /\ (~WellTyped(cur.body) \/ OutOfRange(cur.body)))
        => /\ cur.status \in 400..499
           /\ cur.tok = 0
           /\ cur.gen = 0

\* The task has called the tokenizer and has not yet built its response.
Began(t) == t.kind = "predict" /\ t.tok > 0 /\ t.pc # "done"

\* The tasks that are between their tokenizer call and their response.
InFlight ==
    {i \in 1..Len(queue) : Began(queue[i])} \cup (IF Began(cur) THEN {0} ELSE {})

\* C10: at most one request is between its tokenizer call and its response at
\* any time, and a request that has begun is never set aside for another one:
\* it is the task the loop is running.
C10_OneGenerationInFlight ==
    /\ Cardinality(InFlight) <= 1
    /\ \A i \in 1..Len(queue) : ~Began(queue[i])

C10_Witness ==
    /\ Began(cur)
    /\ cur.pc = "decode"
    /\ Len(queue) >= 2
    /\ \A i \in 1..Len(queue) :
         queue[i].kind = "predict" /\ WellTyped(queue[i].body)

=============================================================================
